---- MODULE Spec2Model ----
(***************************************************************************)
(* Flow AI Platform - authentication subsystem.                            *)
(*                                                                         *)
(* A state machine of the HTTP surface in                                  *)
(* backend/src/api/v1/endpoints/auth.py on top of the service layer in     *)
(* backend/src/services/auth.py, the request session dependency in         *)
(* backend/src/core/database.py and the exception handlers in              *)
(* backend/src/core/exceptions.py.  One action is one HTTP request (or one *)
(* direct call of a service method); the state is the committed content of *)
(* the database, the clock, the random source and the tokens clients hold. *)
(*                                                                         *)
(* Spec starts on an empty database with the default settings.  SpecStored *)
(* starts on a database that earlier requests and the administration have  *)
(* written, SpecConfigured under a configured access-token lifetime, and   *)
(* SpecConcurrent handles several requests at the same time, a step being  *)
(* the code of a handler between two awaits.                               *)
(*                                                                         *)
(* The ORM models (src/models/user.py, src/models/organization.py) are not *)
(* part of the sources at hand; their column defaults and helper methods   *)
(* are modelled from the written specification and are marked as such.     *)
(***************************************************************************)
EXTENDS Integers, Sequences, FiniteSets, TLC

(* ----------------------------------------------------------------------- *)
(* Bounds of the model                                                      *)
(* ----------------------------------------------------------------------- *)
MaxSessions == 1
MaxResetTokens == 1
MaxTicks == 1
MaxFailedCount == 2
MaxIssued == 2
MaxWorkers == 2

(* ----------------------------------------------------------------------- *)
(* Program constants                                                        *)
(* ----------------------------------------------------------------------- *)
JWT_ACCESS_TOKEN_EXPIRE_MINUTES == 30
JWT_REFRESH_TOKEN_EXPIRE_DAYS == 7
PASSWORD_MIN_LENGTH == 8
PASSWORD_REQUIRE_UPPERCASE == TRUE
PASSWORD_REQUIRE_LOWERCASE == TRUE
PASSWORD_REQUIRE_NUMBERS == TRUE
PASSWORD_REQUIRE_SPECIAL == TRUE
RESET_TOKEN_HOURS == 1
\* TokenResponse.expires_in: int = 1800
TOKEN_EXPIRES_IN == 1800
SECONDS_PER_MINUTE == 60
MINUTES_PER_HOUR == 60
MINUTES_PER_DAY == 1440
\* Settings(): every field is read from the environment and falls back to
\* its default; the access-token lifetime is the field the deployments vary.
Settings(access_minutes) ==
    [JWT_ACCESS_TOKEN_EXPIRE_MINUTES |-> access_minutes,
     JWT_REFRESH_TOKEN_EXPIRE_DAYS |-> JWT_REFRESH_TOKEN_EXPIRE_DAYS]

\* Python's None in a nullable integer column (tokens and ids start at 1,
\* times at 0).
None == 0
NoTime == -1

\* User.increment_failed_login locks the account when the count reaches the
\* policy threshold, for the policy's lock period.
MAX_FAILED_LOGINS == 2
LOCK_MINUTES == 30

(* ----------------------------------------------------------------------- *)
(* Inputs                                                                   *)
(* ----------------------------------------------------------------------- *)
\* One address registers; the other is presented by callers but belongs to
\* no account.
RegisterEmails == {"a@x.com"}
Emails == {"a@x.com", "b@x.com"}
\* Passwords are sequences of characters so that the strength policy is
\* computed from the characters, as the code does.
PwGood == <<"S", "e", "c", "r", "3", "t", "!", "A">>
PwNew == <<"N", "3", "w", "P", "a", "s", "s", "!">>
PwWeak == <<"w", "e", "a", "k", "p", "a", "s", "s">>
PwShort == <<"S", "h", "0", "r", "t", "!">>
RegisterPasswords == {PwGood, PwWeak, PwShort}
LoginPasswords == {PwGood, PwNew}
ResetPasswords == {PwNew, PwWeak, PwShort}
OrgNames == {"", "Acme"}
TickMinutes == {61}
\* Values of JWT_ACCESS_TOKEN_EXPIRE_MINUTES that deployments set in the
\* environment: the default and a shorter one.
AccessTokenMinutes == {15, 30}
\* Token values and user ids a caller may present: those in use, and one
\* that is not.
Tokens == 1..2
UserIds == 1..2

UpperChars == {"A", "N", "P", "S"}
LowerChars == {"a", "e", "c", "h", "k", "p", "r", "s", "t", "w"}
DigitChars == {"0", "3"}
SpecialChars == {"!", "@", "#", "$", "%", "^", "&", "*", "(", ")", "_", "+",
                 "-", "=", "[", "]", "{", "}", "|", ";", ":", ",", ".", "<",
                 ">", "?"}

(* ----------------------------------------------------------------------- *)
(* State                                                                    *)
(* ----------------------------------------------------------------------- *)
VARIABLES
    users,      \* table "users": sequence of rows, id = position
    sessions,   \* table "user_sessions": sequence of rows, id = position
    orgs,       \* table "organizations": sequence of rows, id = position
    now,        \* datetime.utcnow(), in minutes
    rnd,        \* number of reset tokens drawn from the secrets module
    issued,     \* signed JWTs handed out to clients
    resp,       \* the last request and the response sent for it
    ticks,      \* number of clock advances (bounds the clock)
    consumed,   \* verification tokens a verify_email call has consumed
    scenario,   \* responses of the requests since the last registration,
                \* while they follow register, login, verify, login
    settings,   \* core/config.py: the Settings object read at start-up
    flight      \* the requests being handled at the same time, one per
                \* worker: where each one stands and the row it has read

vars == <<users, sessions, orgs, now, rnd, issued, resp, ticks, consumed,
          scenario, settings, flight>>

(* ----------------------------------------------------------------------- *)
(* Exceptions (core/exceptions.py)                                          *)
(* ----------------------------------------------------------------------- *)
NoExc == [type |-> "NoExc", status_code |-> 0, error_code |-> "", message |-> ""]

AuthenticationError(msg) ==
    [type |-> "AuthenticationError", status_code |-> 401,
     error_code |-> "AUTHENTICATION_ERROR", message |-> msg]

ValidationError(msg) ==
    [type |-> "ValidationError", status_code |-> 422,
     error_code |-> "VALIDATION_ERROR", message |-> msg]

NotFoundError(msg) ==
    [type |-> "NotFoundError", status_code |-> 404,
     error_code |-> "NOT_FOUND", message |-> msg]

ConflictError(msg) ==
    [type |-> "ConflictError", status_code |-> 409,
     error_code |-> "CONFLICT_ERROR", message |-> msg]

\* An exception that is no FlowAIException.  `select(...).where(...)` is a
\* Select; it has no attribute `update`, so evaluating
\* `select(UserSession).where(...).update({...})` raises AttributeError.
AttributeError ==
    [type |-> "AttributeError", status_code |-> 0, error_code |-> "",
     message |-> "'Select' object has no attribute 'update'"]

\* sqlalchemy.exc.IntegrityError, no FlowAIException: the unique index on
\* users.email rejects the INSERT of a second row with the same email.
IntegrityError ==
    [type |-> "IntegrityError", status_code |-> 0, error_code |-> "",
     message |-> "duplicate key value violates unique constraint"]

\* pydantic rejects the request body before the endpoint function runs.
RequestValidationError ==
    [type |-> "RequestValidationError", status_code |-> 0, error_code |-> "",
     message |-> "ensure this value has at least 8 characters"]

FlowAITypes == {"AuthenticationError", "ValidationError", "NotFoundError",
                "ConflictError"}

\* The error part of a response: [status, code, message].
flow_ai_exception_handler(exc) ==
    [status |-> exc.status_code, code |-> exc.error_code,
     message |-> exc.message]

validation_exception_handler(exc) ==
    [status |-> 422, code |-> "VALIDATION_ERROR",
     message |-> "Request validation failed"]

generic_exception_handler(exc) ==
    [status |-> 500, code |-> "INTERNAL_ERROR",
     message |-> "An unexpected error occurred"]

\* setup_exception_handlers: the handler registered for the exception's class.
HandleException(exc) ==
    IF exc.type \in FlowAITypes THEN flow_ai_exception_handler(exc)
    ELSE IF exc.type = "RequestValidationError"
         THEN validation_exception_handler(exc)
         ELSE generic_exception_handler(exc)

(* ----------------------------------------------------------------------- *)
(* Rows (src/models/user.py, src/models/organization.py: column defaults)   *)
(* ----------------------------------------------------------------------- *)
\* A freshly constructed User: status pending, email not verified, no failed
\* logins, not locked, no reset token.
NewUser(email, password_hash, organization_id, verification_token, role) ==
    [email |-> email,
     password_hash |-> password_hash,
     status |-> "pending",
     email_verified |-> FALSE,
     verification_token |-> verification_token,
     password_reset_token |-> None,
     password_reset_expires |-> NoTime,
     password_changed_at |-> NoTime,
     failed_login_count |-> 0,
     locked_until |-> NoTime,
     role |-> role,
     organization_id |-> organization_id]

\* A freshly constructed UserSession: Base.is_active defaults to True.
NewSession(user_id, session_token, expires_at) ==
    [user_id |-> user_id,
     session_token |-> session_token,
     expires_at |-> expires_at,
     is_active |-> TRUE,
     revoked_reason |-> "None"]

\* Base.soft_delete and Base.restore, which every model inherits.
soft_delete(row) == [row EXCEPT !.is_active = FALSE]

restore(row) == [row EXCEPT !.is_active = TRUE]

\* A freshly constructed Organization: no users counted yet.
NewOrganization(name) == [name |-> name, user_count |-> 0]

\* User.is_locked: locked_until lies in the future.
is_locked(user, t) == user.locked_until /= NoTime /\ user.locked_until > t

\* User.is_verified
is_verified(user) == user.email_verified

\* User.is_active_user
is_active_user(user) == user.status = "active"

\* User.increment_failed_login: count the failure; at the policy threshold
\* lock the account for the lock period.
increment_failed_login(user, t) ==
    LET n == user.failed_login_count + 1
    IN  [user EXCEPT !.failed_login_count = n,
                     !.locked_until = IF n >= MAX_FAILED_LOGINS
                                      THEN t + LOCK_MINUTES
                                      ELSE user.locked_until]

\* User.update_login_tracking: reset the failure tracking.
update_login_tracking(user, t) ==
    [user EXCEPT !.failed_login_count = 0, !.locked_until = NoTime]

\* The transitions of the user status that the administration performs
\* outside this core: suspend and deactivate.
suspend(user) == [user EXCEPT !.status = "suspended"]

deactivate(user) == [user EXCEPT !.status = "deactivated"]

\* Organization.increment_usage("user")
increment_usage(org) == [org EXCEPT !.user_count = org.user_count + 1]

(* ----------------------------------------------------------------------- *)
(* Queries                                                                  *)
(* ----------------------------------------------------------------------- *)
\* result.scalar_one_or_none(): the id of the one matching row, or None.
scalar_one_or_none(ids) == IF ids = {} THEN None ELSE CHOOSE i \in ids : TRUE

UserByEmail(us, email) ==
    scalar_one_or_none({i \in DOMAIN us : us[i].email = email})

UserByVerificationToken(us, token) ==
    scalar_one_or_none({i \in DOMAIN us : us[i].verification_token = token})

UserByResetToken(us, token) ==
    scalar_one_or_none({i \in DOMAIN us : us[i].password_reset_token = token})

UserById(us, id) == IF id \in DOMAIN us THEN id ELSE None

OrgByName(os, name) ==
    scalar_one_or_none({i \in DOMAIN os : os[i].name = name})

(* ----------------------------------------------------------------------- *)
(* AuthService (services/auth.py)                                           *)
(* ----------------------------------------------------------------------- *)
\* secrets.token_urlsafe(32): a value never drawn before.  Values of one
\* column are only compared with each other, so the k-th value drawn for a
\* column is modelled as k.
token_urlsafe(drawn) == drawn + 1

\* pwd_context.hash / pwd_context.verify: a one-way function of the
\* password; verify accepts exactly the password that was hashed.
hash_password(password) == <<"bcrypt", password>>

verify_password_unhashed(plain_password, hashed_password) ==
    hashed_password = plain_password

verify_password(plain_password, hashed_password) ==
    hashed_password = hash_password(plain_password)

HasChar(password, chars) == \E i \in DOMAIN password : password[i] \in chars

\* The ValidationError validate_password_strength raises, or NoExc.
validate_password_strength(password) ==
    IF Len(password) < PASSWORD_MIN_LENGTH
    THEN ValidationError("Password must be at least 8 characters long")
    ELSE IF PASSWORD_REQUIRE_UPPERCASE /\ ~HasChar(password, UpperChars)
    THEN ValidationError("Password must contain at least one uppercase letter")
    ELSE IF PASSWORD_REQUIRE_LOWERCASE /\ ~HasChar(password, LowerChars)
    THEN ValidationError("Password must contain at least one lowercase letter")
    ELSE IF PASSWORD_REQUIRE_NUMBERS /\ ~HasChar(password, DigitChars)
    THEN ValidationError("Password must contain at least one number")
    ELSE IF PASSWORD_REQUIRE_SPECIAL /\ ~HasChar(password, SpecialChars)
    THEN ValidationError("Password must contain at least one special character")
    ELSE NoExc

\* A signed JWT: its claims and whether the signature is the server's.
NoJwt == [sub |-> None, email |-> "", role |-> "", org_id |-> None,
          type |-> "None", exp |-> NoTime, sig |-> "none"]

create_access_token(user_id, user, t) ==
    [sub |-> user_id, email |-> user.email, role |-> user.role,
     org_id |-> user.organization_id, type |-> "None",
     exp |-> t + settings.JWT_ACCESS_TOKEN_EXPIRE_MINUTES,
     sig |-> "JWT_SECRET"]

create_refresh_token(user_id, t) ==
    [sub |-> user_id, email |-> "", role |-> "", org_id |-> None,
     type |-> "refresh",
     exp |-> t + settings.JWT_REFRESH_TOKEN_EXPIRE_DAYS * MINUTES_PER_DAY,
     sig |-> "JWT_SECRET"]

\* jwt.decode: JWTError on a bad signature or an elapsed expiry.
JwtDecodes(token, t) == token.sig = "JWT_SECRET" /\ token.exp >= t

\* verify_token: the exception raised, or NoExc.
verify_token(token, t) ==
    IF JwtDecodes(token, t) THEN NoExc ELSE AuthenticationError("Invalid token")

\* The result of a service call: the database as committed when the call
\* returns or raises, the exception raised (NoExc when it returns), the
\* returned user id and tokens, and the number of secrets drawn so far.
\* `pending` is the database as the request's session sees it, its
\* uncommitted writes included; it differs from `db` only when the call
\* raises between a write and the commit.
Result(db, exc, user, access, refresh, r) ==
    [db |-> db, pending |-> db, exc |-> exc, user |-> user,
     access_token |-> access, refresh_token |-> refresh, rnd |-> r]

Raise(db, exc, r) == Result(db, exc, None, NoJwt, NoJwt, r)

\* The two failures of authenticate_user that carry the generic message.
UserNotFoundFailure == AuthenticationError("Invalid email or password")

InvalidPasswordFailure_distinct == AuthenticationError("Invalid password")

InvalidPasswordFailure == AuthenticationError("Invalid email or password")

authenticate_user_unlocked(db, t, r, email, password) ==
    LET uid == UserByEmail(db.users, email)
    IN  IF uid = None
        THEN Raise(db, UserNotFoundFailure, r)
        ELSE
        LET user == db.users[uid]
        IN  IF ~verify_password(password, user.password_hash)
            THEN Raise([db EXCEPT !.users[uid] = increment_failed_login(user, t)],
                       InvalidPasswordFailure, r)
            ELSE IF user.status /= "active"
            THEN Raise(db, AuthenticationError("Account is not active"), r)
            ELSE IF ~is_verified(user)
            THEN Raise(db, AuthenticationError("Email address not verified"), r)
            ELSE
            LET tracked == update_login_tracking(user, t)
                session == NewSession(uid, token_urlsafe(Len(db.sessions)),
                               t + settings.JWT_REFRESH_TOKEN_EXPIRE_DAYS
                                       * MINUTES_PER_DAY)
            IN  Result([db EXCEPT !.users[uid] = tracked,
                                  !.sessions = Append(db.sessions, session)],
                       NoExc, uid,
                       create_access_token(uid, tracked, t),
                       create_refresh_token(uid, t),
                       r)

\* The wrong-password branch without its db.commit(): the count is changed
\* in the session only and the raise leaves it to the rollback.
record_failed_login_uncommitted(db, uid, t, r) ==
    [Raise(db, InvalidPasswordFailure, r)
         EXCEPT !.pending = [db EXCEPT !.users[uid] =
                                 increment_failed_login(db.users[uid], t)]]

\* The wrong-password branch of authenticate_user: increment_failed_login,
\* db.commit(), then raise.  The commit makes the count part of the stored
\* state before the request fails.
record_failed_login(db, uid, t, r) ==
    Raise([db EXCEPT !.users[uid] = increment_failed_login(db.users[uid], t)],
          InvalidPasswordFailure, r)

\* A login that keeps one session per user: the new row takes the place of
\* the user's earlier ones.
add_session_replacing(db, uid, t) ==
    Append(SelectSeq(db.sessions, LAMBDA s : s.user_id /= uid),
           NewSession(uid, token_urlsafe(Len(db.sessions)),
                      t + settings.JWT_REFRESH_TOKEN_EXPIRE_DAYS
                              * MINUTES_PER_DAY))

\* The session record of a successful login: db.add(UserSession(...)).
add_session(db, uid, t) ==
    Append(db.sessions,
           NewSession(uid, token_urlsafe(Len(db.sessions)),
                      t + settings.JWT_REFRESH_TOKEN_EXPIRE_DAYS
                              * MINUTES_PER_DAY))

\* authenticate_user with the status test ahead of the password test.
authenticate_user_status_first(db, t, r, email, password) ==
    LET uid == UserByEmail(db.users, email)
    IN  IF uid = None
        THEN Raise(db, UserNotFoundFailure, r)
        ELSE
        LET user == db.users[uid]
        IN  IF is_locked(user, t)
            THEN Raise(db, AuthenticationError(
                     "Account is temporarily locked due to failed login attempts"), r)
            ELSE IF user.status /= "active"
            THEN Raise(db, AuthenticationError("Account is not active"), r)
            ELSE IF ~verify_password(password, user.password_hash)
            THEN record_failed_login(db, uid, t, r)
            ELSE IF ~is_verified(user)
            THEN Raise(db, AuthenticationError("Email address not verified"), r)
            ELSE
            LET tracked == update_login_tracking(user, t)
            IN  Result([db EXCEPT !.users[uid] = tracked,
                                  !.sessions = add_session(db, uid, t)],
                       NoExc, uid,
                       create_access_token(uid, tracked, t),
                       create_refresh_token(uid, t),
                       r)

\* authenticate_user without the test of the verified e-mail address.
authenticate_user_unverified(db, t, r, email, password) ==
    LET uid == UserByEmail(db.users, email)
    IN  IF uid = None
        THEN Raise(db, UserNotFoundFailure, r)
        ELSE
        LET user == db.users[uid]
        IN  IF is_locked(user, t)
            THEN Raise(db, AuthenticationError(
                     "Account is temporarily locked due to failed login attempts"), r)
            ELSE IF ~verify_password(password, user.password_hash)
            THEN record_failed_login(db, uid, t, r)
            ELSE IF user.status /= "active"
            THEN Raise(db, AuthenticationError("Account is not active"), r)
            ELSE
            LET tracked == update_login_tracking(user, t)
            IN  Result([db EXCEPT !.users[uid] = tracked,
                                  !.sessions = add_session(db, uid, t)],
                       NoExc, uid,
                       create_access_token(uid, tracked, t),
                       create_refresh_token(uid, t),
                       r)

authenticate_user(db, t, r, email, password) ==
    LET uid == UserByEmail(db.users, email)
    IN  IF uid = None
        THEN Raise(db, UserNotFoundFailure, r)
        ELSE
        LET user == db.users[uid]
        IN  IF is_locked(user, t)
            THEN Raise(db, AuthenticationError(
                     "Account is temporarily locked due to failed login attempts"), r)
            ELSE IF ~verify_password(password, user.password_hash)
            THEN record_failed_login(db, uid, t, r)
            ELSE IF user.status /= "active"
            THEN Raise(db, AuthenticationError("Account is not active"), r)
            ELSE IF ~is_verified(user)
            THEN Raise(db, AuthenticationError("Email address not verified"), r)
            ELSE
            LET tracked == update_login_tracking(user, t)
            IN  Result([db EXCEPT !.users[uid] = tracked,
                                  !.sessions = add_session(db, uid, t)],
                       NoExc, uid,
                       create_access_token(uid, tracked, t),
                       create_refresh_token(uid, t),
                       r)

\* The insert with the role decided by whether the organization was created.
register_user_creator_admin(db, t, r, email, password, organization_name) ==
    IF UserByEmail(db.users, email) /= None
    THEN Raise(db, IntegrityError, r)
    ELSE
    LET found == IF organization_name /= ""
                 THEN OrgByName(db.orgs, organization_name) ELSE None
        orgs1 == IF organization_name /= "" /\ found = None
                 THEN Append(db.orgs, NewOrganization(organization_name))
                 ELSE db.orgs
        oid == IF organization_name = "" THEN None
               ELSE IF found = None THEN Len(orgs1) ELSE found
        \* only the user who created the organization becomes its admin
        admin == organization_name /= "" /\ found = None
        orgs2 == IF oid /= None
                 THEN [orgs1 EXCEPT ![oid] = increment_usage(orgs1[oid])]
                 ELSE orgs1
        user == NewUser(email, hash_password(password), oid,
                        token_urlsafe(Len(db.users)),
                        IF admin THEN "admin" ELSE "user")
        users1 == Append(db.users, user)
    IN  Result([db EXCEPT !.users = users1, !.orgs = orgs2],
               NoExc, Len(users1), NoJwt, NoJwt, r)

\* The second half of register_user: the organization, the new User and
\* db.commit(), which sends the INSERT.
register_user_insert(db, t, r, email, password, organization_name) ==
    IF UserByEmail(db.users, email) /= None
    THEN Raise(db, IntegrityError, r)
    ELSE
    LET found == IF organization_name /= ""
                 THEN OrgByName(db.orgs, organization_name) ELSE None
        \* a new organization is added (and flushed) when none was found
        orgs1 == IF organization_name /= "" /\ found = None
                 THEN Append(db.orgs, NewOrganization(organization_name))
                 ELSE db.orgs
        oid == IF organization_name = "" THEN None
               ELSE IF found = None THEN Len(orgs1) ELSE found
        admin == oid /= None /\ orgs1[oid].user_count = 0
        orgs2 == IF oid /= None
                 THEN [orgs1 EXCEPT ![oid] = increment_usage(orgs1[oid])]
                 ELSE orgs1
        user == NewUser(email, hash_password(password), oid,
                        token_urlsafe(Len(db.users)),
                        IF admin THEN "admin" ELSE "user")
        users1 == Append(db.users, user)
    IN  Result([db EXCEPT !.users = users1, !.orgs = orgs2],
               NoExc, Len(users1), NoJwt, NoJwt, r)

\* The first half of register_user: the exception its checks raise, or NoExc.
register_user_check(db, email, password) ==
    IF UserByEmail(db.users, email) /= None
    THEN ValidationError("Email address already registered")
    ELSE validate_password_strength(password)

register_user(db, t, r, email, password, organization_name) ==
    IF register_user_check(db, email, password) /= NoExc
    THEN Raise(db, register_user_check(db, email, password), r)
    ELSE register_user_insert(db, t, r, email, password, organization_name)

verify_email_keeps_token(db, t, r, token) ==
    LET uid == UserByVerificationToken(db.users, token)
    IN  IF uid = None
        THEN Raise(db, NotFoundError("Invalid verification token"), r)
        ELSE Result([db EXCEPT !.users[uid] =
                        [db.users[uid] EXCEPT !.email_verified = TRUE,
                                              !.status = "active"]],
                    NoExc, uid, NoJwt, NoJwt, r)

\* The write of verify_email without the assignment to email_verified.
verify_email_write_unverified(db, r, uid) ==
    Result([db EXCEPT !.users[uid] =
               [db.users[uid] EXCEPT !.verification_token = None,
                                     !.status = "active"]],
           NoExc, uid, NoJwt, NoJwt, r)

\* The second half of verify_email: the assignments to the user that was
\* read and db.commit(), which sends the UPDATE of that row.
verify_email_write(db, r, uid) ==
    Result([db EXCEPT !.users[uid] =
               [db.users[uid] EXCEPT !.email_verified = TRUE,
                                     !.verification_token = None,
                                     !.status = "active"]],
           NoExc, uid, NoJwt, NoJwt, r)

verify_email(db, t, r, token) ==
    LET uid == UserByVerificationToken(db.users, token)
    IN  IF uid = None
        THEN Raise(db, NotFoundError("Invalid verification token"), r)
        ELSE verify_email_write(db, r, uid)

\* request_password_reset that leaves a pending token and its expiry in
\* place.
request_password_reset_keeps_pending(db, t, r, email) ==
    LET uid == UserByEmail(db.users, email)
    IN  IF uid = None
        THEN Raise(db, NotFoundError(
                 "If this email is registered, you will receive reset instructions"), r)
        ELSE IF db.users[uid].password_reset_token /= None
        THEN Result(db, NoExc, uid, NoJwt, NoJwt, r)
        ELSE Result([db EXCEPT !.users[uid] =
                        [db.users[uid] EXCEPT
                            !.password_reset_token = token_urlsafe(r),
                            !.password_reset_expires =
                                t + RESET_TOKEN_HOURS * MINUTES_PER_HOUR]],
                    NoExc, uid, NoJwt, NoJwt, r + 1)

\* request_password_reset that stores the token and leaves the expiry as it
\* is.
request_password_reset_token_only(db, t, r, email) ==
    LET uid == UserByEmail(db.users, email)
    IN  IF uid = None
        THEN Raise(db, NotFoundError(
                 "If this email is registered, you will receive reset instructions"), r)
        ELSE Result([db EXCEPT !.users[uid] =
                        [db.users[uid] EXCEPT
                            !.password_reset_token = token_urlsafe(r)]],
                    NoExc, uid, NoJwt, NoJwt, r + 1)

request_password_reset(db, t, r, email) ==
    LET uid == UserByEmail(db.users, email)
    IN  IF uid = None
        THEN Raise(db, NotFoundError(
                 "If this email is registered, you will receive reset instructions"), r)
        ELSE Result([db EXCEPT !.users[uid] =
                        [db.users[uid] EXCEPT
                            !.password_reset_token = token_urlsafe(r),
                            !.password_reset_expires =
                                t + RESET_TOKEN_HOURS * MINUTES_PER_HOUR]],
                    NoExc, uid, NoJwt, NoJwt, r + 1)

\* The statement that is to revoke the sessions selected by `rows`:
\* db.execute(select(UserSession).where(...).update({...})).  The argument
\* of db.execute is evaluated first and raises AttributeError, so no row is
\* touched and the statements after it are not reached.
RevokeSessions_restores(db, rows, reason) ==
    [db |-> [db EXCEPT !.sessions =
                [i \in DOMAIN db.sessions |->
                    IF i \in rows THEN restore(db.sessions[i])
                    ELSE db.sessions[i]]],
     exc |-> NoExc]

RevokeSessions(db, rows, reason) == [db |-> db, exc |-> AttributeError]

reset_password_no_expiry(db, t, r, token, new_password) ==
    LET uid == UserByResetToken(db.users, token)
    IN  IF uid = None
        THEN Raise(db, NotFoundError("Invalid reset token"), r)
        ELSE IF validate_password_strength(new_password) /= NoExc
        THEN Raise(db, validate_password_strength(new_password), r)
        ELSE
        LET written == [db EXCEPT !.users[uid] =
                           [db.users[uid] EXCEPT
                               !.password_hash = hash_password(new_password),
                               !.password_reset_token = None,
                               !.password_reset_expires = NoTime,
                               !.password_changed_at = t]]
            revoked == RevokeSessions(written,
                           {i \in DOMAIN db.sessions : db.sessions[i].user_id = uid},
                           "password_reset")
        IN  IF revoked.exc /= NoExc
            THEN [Raise(db, revoked.exc, r) EXCEPT !.pending = revoked.db]
            ELSE Result(revoked.db, NoExc, uid, NoJwt, NoJwt, r)

\* reset_password that clears an expired token, and commits, before it
\* rejects the request.
reset_password_clears_expired(db, t, r, token, new_password) ==
    LET uid == UserByResetToken(db.users, token)
    IN  IF uid = None
        THEN Raise(db, NotFoundError("Invalid reset token"), r)
        ELSE IF db.users[uid].password_reset_expires < t
        THEN Raise([db EXCEPT !.users[uid] =
                       [db.users[uid] EXCEPT
                           !.password_reset_token = None,
                           !.password_reset_expires = NoTime]],
                   ValidationError("Reset token has expired"), r)
        ELSE IF validate_password_strength(new_password) /= NoExc
        THEN Raise(db, validate_password_strength(new_password), r)
        ELSE
        LET written == [db EXCEPT !.users[uid] =
                           [db.users[uid] EXCEPT
                               !.password_hash = hash_password(new_password),
                               !.password_reset_token = None,
                               !.password_reset_expires = NoTime,
                               !.password_changed_at = t]]
            revoked == RevokeSessions(written,
                           {i \in DOMAIN db.sessions : db.sessions[i].user_id = uid},
                           "password_reset")
        IN  IF revoked.exc /= NoExc
            THEN [Raise(db, revoked.exc, r) EXCEPT !.pending = revoked.db]
            ELSE Result(revoked.db, NoExc, uid, NoJwt, NoJwt, r)

reset_password(db, t, r, token, new_password) ==
    LET uid == UserByResetToken(db.users, token)
    IN  IF uid = None
        THEN Raise(db, NotFoundError("Invalid reset token"), r)
        ELSE IF db.users[uid].password_reset_expires < t
        THEN Raise(db, ValidationError("Reset token has expired"), r)
        ELSE IF validate_password_strength(new_password) /= NoExc
        THEN Raise(db, validate_password_strength(new_password), r)
        ELSE
        LET \* the attribute writes, not yet flushed
            written == [db EXCEPT !.users[uid] =
                           [db.users[uid] EXCEPT
                               !.password_hash = hash_password(new_password),
                               !.password_reset_token = None,
                               !.password_reset_expires = NoTime,
                               !.password_changed_at = t]]
            revoked == RevokeSessions(written,
                           {i \in DOMAIN db.sessions : db.sessions[i].user_id = uid},
                           "password_reset")
        IN  IF revoked.exc /= NoExc
            THEN [Raise(db, revoked.exc, r) EXCEPT !.pending = revoked.db]
            ELSE Result(revoked.db, NoExc, uid, NoJwt, NoJwt, r)

refresh_access_token_live_session(db, t, r, refresh_token) ==
    IF ~JwtDecodes(refresh_token, t)
    THEN Raise(db, AuthenticationError("Invalid refresh token"), r)
    ELSE IF refresh_token.type /= "refresh"
    THEN Raise(db, AuthenticationError("Invalid token type"), r)
    ELSE
    LET uid == UserById(db.users, refresh_token.sub)
    IN  IF uid = None \/ ~is_active_user(db.users[uid])
        THEN Raise(db, AuthenticationError("User not found or inactive"), r)
        ELSE IF ~\E i \in DOMAIN db.sessions :
                    db.sessions[i].user_id = uid /\ db.sessions[i].is_active
        THEN Raise(db, AuthenticationError("Session revoked"), r)
        ELSE Result(db, NoExc, uid,
                    create_access_token(uid, db.users[uid], t),
                    create_refresh_token(uid, t), r)

refresh_access_token_any_type(db, t, r, refresh_token) ==
    IF ~JwtDecodes(refresh_token, t)
    THEN Raise(db, AuthenticationError("Invalid refresh token"), r)
    ELSE
    LET uid == UserById(db.users, refresh_token.sub)
    IN  IF uid = None \/ ~is_active_user(db.users[uid])
        THEN Raise(db, AuthenticationError("User not found or inactive"), r)
        ELSE Result(db, NoExc, uid,
                    create_access_token(uid, db.users[uid], t),
                    create_refresh_token(uid, t), r)

refresh_access_token(db, t, r, refresh_token) ==
    IF ~JwtDecodes(refresh_token, t)
    THEN Raise(db, AuthenticationError("Invalid refresh token"), r)
    ELSE IF refresh_token.type /= "refresh"
    THEN Raise(db, AuthenticationError("Invalid token type"), r)
    ELSE
    LET uid == UserById(db.users, refresh_token.sub)
    IN  IF uid = None \/ ~is_active_user(db.users[uid])
        THEN Raise(db, AuthenticationError("User not found or inactive"), r)
        ELSE Result(db, NoExc, uid,
                    create_access_token(uid, db.users[uid], t),
                    create_refresh_token(uid, t), r)

\* session_token = None is Python's None (or an empty string): all sessions
\* of the user are selected.
logout_user(db, t, r, user_id, session_token) ==
    LET rows == IF session_token /= None
                THEN {i \in DOMAIN db.sessions :
                        /\ db.sessions[i].user_id = user_id
                        /\ db.sessions[i].session_token = session_token}
                ELSE {i \in DOMAIN db.sessions :
                        db.sessions[i].user_id = user_id}
        revoked == RevokeSessions(db, rows, "user_logout")
    IN  IF revoked.exc /= NoExc
        THEN [Raise(db, revoked.exc, r) EXCEPT !.pending = revoked.db]
        ELSE Result(revoked.db, NoExc, user_id, NoJwt, NoJwt, r)

(* ----------------------------------------------------------------------- *)
(* Request session (core/database.py)                                       *)
(* ----------------------------------------------------------------------- *)
\* get_db: commit when the endpoint returned, roll back when it raised.
\* The value is the database after the request.
get_db(result) == IF result.exc = NoExc THEN result.pending ELSE result.db

(* ----------------------------------------------------------------------- *)
(* Requests and responses                                                   *)
(* ----------------------------------------------------------------------- *)
DB == [users |-> users, sessions |-> sessions, orgs |-> orgs]

Request(op, email, password, token, org, bearer) ==
    [op |-> op, email |-> email, password |-> password, token |-> token,
     organization_name |-> org, bearer |-> bearer]

\* TokenResponse(access_token=..., refresh_token=...): the endpoints pass the
\* two tokens; token_type and expires_in keep the defaults of the schema.
TokenResponse(access_token, refresh_token) ==
    [access_token |-> access_token, refresh_token |-> refresh_token,
     token_type |-> "bearer", expires_in |-> TOKEN_EXPIRES_IN]

\* A success response: the status of the route, the message of a
\* MessageResponse, the user of a UserResponse, the fields of a TokenResponse
\* (empty when the route returns no tokens).
Success(req, status, message, user, access, refresh) ==
    [req |-> req, status |-> status, code |-> "", message |-> message,
     raised |-> "NoExc", user |-> user,
     access_token |-> access, refresh_token |-> refresh,
     token_type |-> IF access = NoJwt THEN ""
                    ELSE TokenResponse(access, refresh).token_type,
     expires_in |-> IF access = NoJwt THEN 0
                    ELSE TokenResponse(access, refresh).expires_in]

\* The response the exception handlers build for an exception.
Failure(req, exc) ==
    [req |-> req, status |-> HandleException(exc).status,
     code |-> HandleException(exc).code,
     message |-> HandleException(exc).message,
     raised |-> exc.type, user |-> None,
     access_token |-> NoJwt, refresh_token |-> NoJwt,
     token_type |-> "", expires_in |-> 0]

NoRequest == Request("none", "", <<>>, None, "", NoJwt)

Off == [on |-> FALSE, email |-> "", password |-> <<>>, token |-> None,
        trail |-> <<>>]

\* The workers that handle requests at the same time, and a worker that
\* handles none.
Workers == 1..MaxWorkers

Idle == [pc |-> "idle", req |-> NoRequest, seen |-> None]

Init ==
    /\ users = <<>>
    /\ sessions = <<>>
    /\ orgs = <<>>
    /\ now = 0
    /\ rnd = 0
    /\ issued = {}
    /\ resp = Success(NoRequest, 0, "", None, NoJwt, NoJwt)
    /\ ticks = 0
    /\ consumed = {}
    /\ scenario = Off
    /\ settings = Settings(JWT_ACCESS_TOKEN_EXPIRE_MINUTES)
    /\ flight = [w \in Workers |-> Idle]

\* The database after the request and the bounds of the model on it.
Persist(result) ==
    /\ Cardinality({i \in DOMAIN get_db(result).sessions :
                        get_db(result).sessions[i].is_active}) <= MaxSessions
    /\ result.rnd <= MaxResetTokens
    /\ \A i \in DOMAIN get_db(result).users :
           get_db(result).users[i].failed_login_count <= MaxFailedCount
    /\ users' = get_db(result).users
    /\ sessions' = get_db(result).sessions
    /\ orgs' = get_db(result).orgs
    /\ rnd' = result.rnd
    /\ UNCHANGED settings

\* A request that is handled with no other request in flight.
Commit(result) == Persist(result) /\ UNCHANGED flight

Hand(tokens) ==
    /\ Cardinality(issued \cup (tokens \ {NoJwt})) <= MaxIssued
    /\ issued' = issued \cup (tokens \ {NoJwt})

\* The scenario register, login, verify_email, login for one new account.
Follow(req, status) ==
    IF /\ scenario.on
       /\ \/ /\ req.op = "login"
             /\ Len(scenario.trail) \in {1, 3}
             /\ req.email = scenario.email
             /\ req.password = scenario.password
          \/ /\ req.op = "verify_email"
             /\ Len(scenario.trail) = 2
             /\ req.token = scenario.token
    THEN [scenario EXCEPT !.trail = Append(scenario.trail, status)]
    ELSE Off

(* ----------------------------------------------------------------------- *)
(* Endpoints (api/v1/endpoints/auth.py)                                     *)
(* ----------------------------------------------------------------------- *)
\* UserRegisterRequest / PasswordResetConfirm: Field(..., min_length=8)
SchemaRejects(password) == Len(password) < 8

\* POST /auth/register
PostRegister(email, password, organization_name) ==
    LET req == Request("register", email, password, None, organization_name, NoJwt)
        reg == register_user(DB, now, rnd, email, password, organization_name)
        auth == authenticate_user(reg.db, now, reg.rnd, email, password)
        result == IF SchemaRejects(password)
                  THEN Raise(DB, RequestValidationError, rnd)
                  ELSE IF reg.exc /= NoExc THEN reg ELSE auth
        created == ~SchemaRejects(password) /\ reg.exc = NoExc
    IN  /\ Commit(result)
        /\ Hand({result.access_token, result.refresh_token})
        /\ resp' = IF result.exc /= NoExc
                   THEN Failure(req, result.exc)
                   ELSE Success(req, 201, "", result.user,
                                result.access_token, result.refresh_token)
        /\ scenario' = IF created
                       THEN [on |-> TRUE, email |-> email, password |-> password,
                             token |-> reg.db.users[reg.user].verification_token,
                             trail |-> <<resp'.status>>]
                       ELSE Off
        /\ UNCHANGED <<now, ticks, consumed>>

\* POST /auth/login
PostLogin(email, password) ==
    LET req == Request("login", email, password, None, "", NoJwt)
        result == authenticate_user(DB, now, rnd, email, password)
    IN  /\ Commit(result)
        /\ Hand({result.access_token, result.refresh_token})
        /\ resp' = IF result.exc /= NoExc
                   THEN Failure(req, result.exc)
                   ELSE Success(req, 200, "", result.user,
                                result.access_token, result.refresh_token)
        /\ scenario' = Follow(req, resp'.status)
        /\ UNCHANGED <<now, ticks, consumed>>

\* POST /auth/refresh
PostRefresh(refresh_token) ==
    LET req == Request("refresh", "", <<>>, None, "", refresh_token)
        result == refresh_access_token(DB, now, rnd, refresh_token)
    IN  /\ Commit(result)
        /\ Hand({result.access_token, result.refresh_token})
        /\ resp' = IF result.exc /= NoExc
                   THEN Failure(req, result.exc)
                   ELSE Success(req, 200, "", None,
                                result.access_token, result.refresh_token)
        /\ scenario' = Off
        /\ UNCHANGED <<now, ticks, consumed>>

\* POST /auth/logout: any exception in the body, the AuthenticationError of
\* verify_token included, is replaced by AuthenticationError("Failed to logout").
PostLogout(credentials) ==
    LET req == Request("logout", "", <<>>, None, "", credentials)
        verified == verify_token(credentials, now)
        out == logout_user(DB, now, rnd, credentials.sub, None)
        inner == IF verified /= NoExc THEN Raise(DB, verified, rnd) ELSE out
        result == IF inner.exc /= NoExc
                  THEN [inner EXCEPT !.exc = AuthenticationError("Failed to logout")]
                  ELSE inner
    IN  /\ Commit(result)
        /\ resp' = IF result.exc /= NoExc
                   THEN Failure(req, result.exc)
                   ELSE Success(req, 200, "Successfully logged out", None,
                                NoJwt, NoJwt)
        /\ scenario' = Off
        /\ UNCHANGED <<now, ticks, consumed, issued>>

\* POST /auth/verify-email
PostVerifyEmail(token) ==
    LET req == Request("verify_email", "", <<>>, token, "", NoJwt)
        result == verify_email(DB, now, rnd, token)
    IN  /\ Commit(result)
        /\ resp' = IF result.exc /= NoExc
                   THEN Failure(req, result.exc)
                   ELSE Success(req, 200, "Email verified successfully", None,
                                NoJwt, NoJwt)
        /\ consumed' = IF result.exc = NoExc THEN consumed \cup {token}
                       ELSE consumed
        /\ scenario' = Follow(req, resp'.status)
        /\ UNCHANGED <<now, ticks, issued>>

\* POST /auth/password-reset-request
PostPasswordResetRequest(email) ==
    LET req == Request("password_reset_request", email, <<>>, None, "", NoJwt)
        result == request_password_reset(DB, now, rnd, email)
    IN  /\ Commit(result)
        /\ resp' = IF result.exc /= NoExc
                   THEN Failure(req, result.exc)
                   ELSE Success(req, 200,
                            "If this email is registered, you will receive reset instructions",
                            None, NoJwt, NoJwt)
        /\ scenario' = Off
        /\ UNCHANGED <<now, ticks, consumed, issued>>

\* POST /auth/password-reset-confirm
PostPasswordResetConfirm(token, new_password) ==
    LET req == Request("password_reset_confirm", "", new_password, token, "", NoJwt)
        reset == reset_password(DB, now, rnd, token, new_password)
        result == IF SchemaRejects(new_password)
                  THEN Raise(DB, RequestValidationError, rnd)
                  ELSE reset
    IN  /\ Commit(result)
        /\ resp' = IF result.exc /= NoExc
                   THEN Failure(req, result.exc)
                   ELSE Success(req, 200, "Password reset successfully", None,
                                NoJwt, NoJwt)
        /\ scenario' = Off
        /\ UNCHANGED <<now, ticks, consumed, issued>>

\* A direct call of AuthService.logout_user(db, user_id, session_token) on a
\* session of its own, as a caller other than the logout endpoint makes it.
CallLogoutUser(user_id, session_token) ==
    LET req == Request("logout_user", "", <<>>, session_token, "",
                       [NoJwt EXCEPT !.sub = user_id])
        result == logout_user(DB, now, rnd, user_id, session_token)
    IN  /\ Commit(result)
        /\ resp' = IF result.exc /= NoExc
                   THEN Failure(req, result.exc)
                   ELSE Success(req, 0, "", None, NoJwt, NoJwt)
        /\ scenario' = Off
        /\ UNCHANGED <<now, ticks, consumed, issued>>

\* Time passes between requests.
Tick(minutes) ==
    /\ ticks < MaxTicks
    /\ now' = now + minutes
    /\ ticks' = ticks + 1
    /\ resp' = Success(Request("tick", "", <<>>, None, "", NoJwt), 0, "", None,
                       NoJwt, NoJwt)
    /\ UNCHANGED <<users, sessions, orgs, rnd, issued, consumed, scenario,
                   settings, flight>>

\* A token that was not signed with JWT_SECRET.
Forged == [NoJwt EXCEPT !.sub = 1, !.type = "refresh", !.sig = "forged"]

\* A token the server signed whose expiry has passed.
Stale == [NoJwt EXCEPT !.sub = 1, !.type = "refresh", !.exp = NoTime,
                       !.sig = "JWT_SECRET"]

Next ==
    \/ \E e \in RegisterEmails, p \in RegisterPasswords, o \in OrgNames :
           PostRegister(e, p, o)
    \/ \E e \in Emails, p \in LoginPasswords : PostLogin(e, p)
    \/ \E tok \in issued \cup {Forged, Stale} : PostRefresh(tok)
    \/ \E tok \in issued \cup {Forged, Stale} : PostLogout(tok)
    \/ \E tok \in Tokens : PostVerifyEmail(tok)
    \/ \E e \in Emails : PostPasswordResetRequest(e)
    \/ \E tok \in Tokens, p \in ResetPasswords :
           PostPasswordResetConfirm(tok, p)
    \/ \E u \in UserIds, tok \in {None} \cup Tokens : CallLogoutUser(u, tok)
    \/ \E m \in TickMinutes : Tick(m)

Spec == Init /\ [][Next]_vars

(* ----------------------------------------------------------------------- *)
(* A deployment on a database that is not empty                             *)
(* ----------------------------------------------------------------------- *)
\* The lifespan hook creates missing tables only; the rows that earlier
\* requests and the administration have written are there when the service
\* starts.  The stored databases are built with the operations that write
\* them: a registration, then either a deactivation of the unverified
\* account, or a verification and a login whose session was soft-deleted
\* afterwards, with the account left active or suspended.
EmptyDatabase == [users |-> <<>>, sessions |-> <<>>, orgs |-> <<>>]

Registered ==
    get_db(register_user(EmptyDatabase, 0, 0, "a@x.com", PwGood, ""))

Verified ==
    get_db(verify_email(Registered, 0, 0, Registered.users[1].verification_token))

LoggedIn == authenticate_user(Verified, 0, 0, "a@x.com", PwGood)

Revoked == [get_db(LoggedIn) EXCEPT !.sessions[1] = soft_delete(@)]

Stored ==
    {[db |-> [Registered EXCEPT !.users[1] = deactivate(@)],
      issued |-> {}, consumed |-> {}],
     [db |-> Revoked,
      issued |-> {LoggedIn.refresh_token},
      consumed |-> {Registered.users[1].verification_token}],
     [db |-> [Revoked EXCEPT !.users[1] = suspend(@)],
      issued |-> {LoggedIn.refresh_token},
      consumed |-> {Registered.users[1].verification_token}]}

StoredInit ==
    /\ settings = Settings(JWT_ACCESS_TOKEN_EXPIRE_MINUTES)
    /\ \E s \in Stored :
           /\ users = s.db.users
           /\ sessions = s.db.sessions
           /\ orgs = s.db.orgs
           /\ issued = s.issued
           /\ consumed = s.consumed
    /\ now = 0
    /\ rnd = 0
    /\ resp = Success(NoRequest, 0, "", None, NoJwt, NoJwt)
    /\ ticks = 0
    /\ scenario = Off
    /\ flight = [w \in Workers |-> Idle]

SpecStored == StoredInit /\ [][Next]_vars

(* ----------------------------------------------------------------------- *)
(* A deployment that sets the access-token lifetime in its environment      *)
(* ----------------------------------------------------------------------- *)
ConfiguredInit ==
    /\ settings \in {Settings(m) : m \in AccessTokenMinutes}
    /\ users = <<>>
    /\ sessions = <<>>
    /\ orgs = <<>>
    /\ now = 0
    /\ rnd = 0
    /\ issued = {}
    /\ resp = Success(NoRequest, 0, "", None, NoJwt, NoJwt)
    /\ ticks = 0
    /\ consumed = {}
    /\ scenario = Off
    /\ flight = [w \in Workers |-> Idle]

SpecConfigured == ConfiguredInit /\ [][Next]_vars

(* ----------------------------------------------------------------------- *)
(* Requests handled at the same time                                        *)
(* ----------------------------------------------------------------------- *)
\* Every await of a handler is a point at which another request runs.
\* register_user awaits the SELECT by email and, later, db.commit(); the
\* endpoint then awaits authenticate_user.  verify_email awaits the SELECT
\* by token and, later, db.commit().  A step below is the code of a handler
\* between two such points.  reset_password raises right after its SELECT,
\* before it awaits again, so its request is a single step.

\* POST /auth/register up to the SELECT by email and the checks on its result
RegisterSelect(w, email, password) ==
    LET req == Request("register", email, password, None, "", NoJwt)
        exc == IF SchemaRejects(password) THEN RequestValidationError
               ELSE register_user_check(DB, email, password)
    IN  /\ flight[w].pc = "idle"
        /\ IF exc /= NoExc
           THEN resp' = Failure(req, exc) /\ UNCHANGED flight
           ELSE /\ flight' = [flight EXCEPT ![w] =
                                 [pc |-> "insert", req |-> req, seen |-> None]]
                /\ UNCHANGED resp
        /\ UNCHANGED <<users, sessions, orgs, now, rnd, issued, ticks,
                       consumed, scenario, settings>>

\* POST /auth/register from the checks to db.commit()
RegisterInsert(w) ==
    LET req == flight[w].req
        result == register_user_insert(DB, now, rnd, req.email, req.password,
                                       req.organization_name)
    IN  /\ flight[w].pc = "insert"
        /\ Persist(result)
        /\ IF result.exc /= NoExc
           THEN /\ resp' = Failure(req, result.exc)
                /\ flight' = [flight EXCEPT ![w] = Idle]
           ELSE /\ flight' = [flight EXCEPT ![w].pc = "login",
                                            ![w].seen = result.user]
                /\ UNCHANGED resp
        /\ UNCHANGED <<now, issued, ticks, consumed, scenario>>

\* POST /auth/register from authenticate_user to the response
RegisterLogin(w) ==
    LET req == flight[w].req
        result == authenticate_user(DB, now, rnd, req.email, req.password)
    IN  /\ flight[w].pc = "login"
        /\ Persist(result)
        /\ Hand({result.access_token, result.refresh_token})
        /\ resp' = IF result.exc /= NoExc
                   THEN Failure(req, result.exc)
                   ELSE Success(req, 201, "", result.user,
                                result.access_token, result.refresh_token)
        /\ flight' = [flight EXCEPT ![w] = Idle]
        /\ UNCHANGED <<now, ticks, consumed, scenario>>

\* POST /auth/verify-email up to the SELECT by token
VerifySelect(w, token) ==
    LET req == Request("verify_email", "", <<>>, token, "", NoJwt)
        uid == UserByVerificationToken(users, token)
    IN  /\ flight[w].pc = "idle"
        /\ IF uid = None
           THEN /\ resp' = Failure(req, NotFoundError("Invalid verification token"))
                /\ UNCHANGED flight
           ELSE /\ flight' = [flight EXCEPT ![w] =
                                 [pc |-> "verify", req |-> req, seen |-> uid]]
                /\ UNCHANGED resp
        /\ UNCHANGED <<users, sessions, orgs, now, rnd, issued, ticks,
                       consumed, scenario, settings>>

\* POST /auth/verify-email from the assignments to the response
VerifyWrite(w) ==
    LET req == flight[w].req
        result == verify_email_write(DB, rnd, flight[w].seen)
    IN  /\ flight[w].pc = "verify"
        /\ Persist(result)
        /\ resp' = Success(req, 200, "Email verified successfully", None,
                           NoJwt, NoJwt)
        /\ consumed' = consumed \cup {req.token}
        /\ flight' = [flight EXCEPT ![w] = Idle]
        /\ UNCHANGED <<now, issued, ticks, scenario>>

ConcurrentNext ==
    \/ \E w \in Workers, e \in RegisterEmails, p \in RegisterPasswords :
           RegisterSelect(w, e, p)
    \/ \E w \in Workers : RegisterInsert(w)
    \/ \E w \in Workers : RegisterLogin(w)
    \/ \E w \in Workers, tok \in Tokens : VerifySelect(w, tok)
    \/ \E w \in Workers : VerifyWrite(w)
    \/ \E e \in Emails : PostPasswordResetRequest(e)
    \/ \E tok \in Tokens, p \in ResetPasswords :
           PostPasswordResetConfirm(tok, p)

SpecConcurrent == Init /\ [][ConcurrentNext]_vars

(* ======================================================================= *)
(* Properties                                                               *)
(* ======================================================================= *)
PolicyCompliant(password) ==
    ~SchemaRejects(password) /\ validate_password_strength(password) = NoExc

IsPrefix(a, b) == Len(a) <= Len(b) /\ \A i \in DOMAIN a : a[i] = b[i]

\* C1: a POST /auth/register with an email no user holds and a password that
\* meets the policy is answered 201 with the created user, an access token
\* and a refresh token.
C1_RegisterReturnsCreated ==
    [][\A e \in RegisterEmails, p \in RegisterPasswords, o \in OrgNames :
          (/\ UserByEmail(users, e) = None
           /\ PolicyCompliant(p)
           /\ PostRegister(e, p, o))
          => /\ resp'.status = 201
             /\ resp'.user /= None
             /\ resp'.access_token /= NoJwt
             /\ resp'.refresh_token /= NoJwt]_vars

\* C2: a register request for an email that a user already holds is answered
\* 409 with code CONFLICT_ERROR, whatever its other fields are.
C2_DuplicateEmailConflict ==
    [][\A e \in RegisterEmails, p \in RegisterPasswords, o \in OrgNames :
          (UserByEmail(users, e) /= None /\ PostRegister(e, p, o))
          => (resp'.status = 409 /\ resp'.code = "CONFLICT_ERROR")]_vars

\* C3: in the sequence register, login, verify_email, login for a new
\* account the responses are 201, 401, 200, 200 and the last one carries an
\* access token and a refresh token.
C3_Scenario ==
    scenario.on =>
        /\ IsPrefix(scenario.trail, <<201, 401, 200, 200>>)
        /\ Len(scenario.trail) = 4 =>
               (resp.access_token /= NoJwt /\ resp.refresh_token /= NoJwt)

\* C4 as stated: a login with the email and the password of a registered
\* user succeeds and returns that user's id.
C4_LoginAfterRegistration ==
    [][\A e \in Emails, p \in LoginPasswords :
          (/\ UserByEmail(users, e) /= None
           /\ users[UserByEmail(users, e)].password_hash = hash_password(p)
           /\ PostLogin(e, p))
          => (resp'.status = 200 /\ resp'.user = UserByEmail(users, e))]_vars

\* C4 as amended: a login with the email and the password of a registered
\* user succeeds and returns that user's id once the email is verified,
\* while the account is active and not locked; before the verification it is
\* rejected with 401.
C4_LoginAfterVerification ==
    [][\A e \in Emails, p \in LoginPasswords :
          (/\ UserByEmail(users, e) /= None
           /\ users[UserByEmail(users, e)].password_hash = hash_password(p)
           /\ PostLogin(e, p))
          => LET user == users[UserByEmail(users, e)]
             IN  /\ (user.email_verified /\ user.status = "active"
                        /\ ~is_locked(user, now))
                    => (resp'.status = 200 /\ resp'.user = UserByEmail(users, e))
                 /\ ~user.email_verified
                    => (resp'.status = 401 /\ resp'.user = None)]_vars

C4_Witness ==
    /\ resp.req.op = "login"
    /\ resp.status = 200
    /\ resp.user /= None
    /\ users[resp.user].email = resp.req.email
    /\ users[resp.user].password_hash = hash_password(resp.req.password)

\* The error a login request for (email, password) would be answered with
\* in the current state: exception type, status, code and message.
LoginError(email, password) ==
    LET exc == authenticate_user(DB, now, rnd, email, password).exc
    IN  <<exc.type, HandleException(exc).status, HandleException(exc).code,
          HandleException(exc).message>>

WrongPasswordFor(email, password) ==
    /\ UserByEmail(users, email) /= None
    /\ ~verify_password(password, users[UserByEmail(users, email)].password_hash)

UnknownEmails == {e \in Emails : UserByEmail(users, e) = None}

\* C5 as stated: in every state, a login with the email of an existing user
\* and a wrong password gets the same error type, code and message as a login
\* with an email no user holds.
C5_NoEnumeration ==
    \A e \in Emails, p \in LoginPasswords, u \in UnknownEmails :
        WrongPasswordFor(e, p) => LoginError(e, p) = LoginError(u, p)

\* C5 as amended: the same, for an existing user whose account is not locked
\* at the time of the login.
C5_NoEnumerationUnlessLocked ==
    \A e \in Emails, p \in LoginPasswords, u \in UnknownEmails :
        (WrongPasswordFor(e, p) /\ ~is_locked(users[UserByEmail(users, e)], now))
        => LoginError(e, p) = LoginError(u, p)

C5_Witness ==
    /\ resp.req.op = "login"
    /\ WrongPasswordFor(resp.req.email, resp.req.password)
    /\ users[UserByEmail(users, resp.req.email)].failed_login_count = 1
    /\ ~is_locked(users[UserByEmail(users, resp.req.email)], now)
    /\ UnknownEmails /= {}
    /\ resp.status = 401

\* C6: POST /auth/password-reset-request is answered 200 with the same
\* message for every email, registered or not.
C6_ResetRequestUniform ==
    resp.req.op = "password_reset_request" =>
        /\ resp.status = 200
        /\ resp.message =
               "If this email is registered, you will receive reset instructions"

\* C7: a reset_password with a user's unexpired reset token and a password
\* that meets the policy succeeds; afterwards every session of that user is
\* inactive with revoked_reason "password_reset", the new password verifies
\* against the stored hash and the old one does not.
C7_ResetRevokesSessions ==
    [][\A tok \in Tokens, p \in ResetPasswords :
          (/\ UserByResetToken(users, tok) /= None
           /\ users[UserByResetToken(users, tok)].password_reset_expires >= now
           /\ PolicyCompliant(p)
           /\ PostPasswordResetConfirm(tok, p))
          => LET uid == UserByResetToken(users, tok)
             IN  /\ resp'.status = 200
                 /\ \A i \in DOMAIN sessions :
                        sessions[i].user_id = uid
                        => /\ ~sessions'[i].is_active
                           /\ sessions'[i].revoked_reason = "password_reset"
                 /\ verify_password(p, users'[uid].password_hash)
                 /\ \A q \in LoginPasswords \ {p} :
                        ~verify_password(q, users'[uid].password_hash)]_vars

\* C8: POST /auth/logout with a valid, unexpired token is answered 200, and
\* afterwards every session of the token's user is inactive with
\* revoked_reason "user_logout".
C8_LogoutRevokesSessions ==
    (resp.req.op = "logout" /\ JwtDecodes(resp.req.bearer, now)) =>
        /\ resp.status = 200
        /\ \A i \in DOMAIN sessions :
               sessions[i].user_id = resp.req.bearer.sub
               => /\ ~sessions[i].is_active
                  /\ sessions[i].revoked_reason = "user_logout"

\* C9: logout_user(user_id, session_token) returns normally and deactivates
\* exactly the sessions it targets (the user's session with that token, or
\* all the user's sessions when no token is given), leaving every other
\* session as it was.
C9_LogoutExactlyTargeted ==
    [][\A u \in UserIds, tok \in {None} \cup Tokens :
          CallLogoutUser(u, tok)
          => /\ resp'.raised = "NoExc"
             /\ Len(sessions') = Len(sessions)
             /\ \A i \in DOMAIN sessions :
                    sessions'[i] =
                        IF /\ sessions[i].user_id = u
                           /\ (tok = None \/ sessions[i].session_token = tok)
                        THEN [sessions[i] EXCEPT !.is_active = FALSE,
                                                 !.revoked_reason = "user_logout"]
                        ELSE sessions[i]]_vars

\* C10: once verify_email has consumed a verification token, every later
\* verify_email with that token is answered 404 NOT_FOUND and leaves the
\* users unchanged.
C10_VerificationTokenSingleUse ==
    [][\A tok \in Tokens :
          (tok \in consumed /\ PostVerifyEmail(tok))
          => /\ resp'.status = 404
             /\ resp'.code = "NOT_FOUND"
             /\ users' = users]_vars

C10_Witness ==
    /\ resp.req.op = "verify_email"
    /\ resp.req.token \in consumed
    /\ resp.status = 404
    /\ \E i \in DOMAIN users : users[i].email_verified

\* C11: a password-reset token is single-use and time-limited.  Its expiry
\* is set one hour after the request.  A reset_password that succeeds leaves
\* no user holding its token, and a reset_password with a token no user
\* holds fails and changes no user, so no call after a successful one
\* succeeds; a reset_password with a token whose expiry has passed fails with
\* 422 ("Reset token has expired" once the body passes the schema) and
\* changes neither the password nor anything else of the user.
C11_ResetTokenSingleUseTimeLimited ==
    [][/\ \A e \in Emails :
              (PostPasswordResetRequest(e) /\ resp'.status = 200)
              => users'[UserByEmail(users, e)].password_reset_expires
                     = now + MINUTES_PER_HOUR
       /\ \A tok \in Tokens, p \in ResetPasswords :
              PostPasswordResetConfirm(tok, p)
              => LET uid == UserByResetToken(users, tok)
                 IN  /\ resp'.status = 200
                        => UserByResetToken(users', tok) = None
                     /\ uid = None
                        => (resp'.status \in {404, 422} /\ users' = users)
                     /\ (uid /= None
                            /\ users[uid].password_reset_expires < now)
                        => /\ resp'.status = 422
                           /\ resp'.code = "VALIDATION_ERROR"
                           /\ ~SchemaRejects(p)
                              => resp'.message = "Reset token has expired"
                           /\ users' = users]_vars

C11_Witness ==
    /\ resp.req.op = "password_reset_confirm"
    /\ UserByResetToken(users, resp.req.token) /= None
    /\ users[UserByResetToken(users, resp.req.token)].password_reset_expires < now
    /\ PolicyCompliant(resp.req.password)
    /\ resp.status = 422
    /\ resp.message = "Reset token has expired"
    /\ ~verify_password(resp.req.password,
           users[UserByResetToken(users, resp.req.token)].password_hash)

\* C12: the failed login that brings an account's count of consecutive
\* failures to the policy's threshold locks the account (an earlier one does
\* not); while the account is locked every login, the one with the correct
\* password included, is rejected with 401 and changes nothing; once the
\* lock has ended, a login with the correct password to the (active,
\* verified) account is accepted and resets the count.
C12_LockoutAfterFailedLogins ==
    [][\A e \in Emails, p \in LoginPasswords :
          (UserByEmail(users, e) /= None /\ PostLogin(e, p))
          => LET uid == UserByEmail(users, e)
                 user == users[uid]
                 right == verify_password(p, user.password_hash)
             IN  /\ (~is_locked(user, now) /\ ~right)
                    => (is_locked(users'[uid], now)
                        <=> user.failed_login_count + 1 >= MAX_FAILED_LOGINS)
                 /\ is_locked(user, now)
                    => /\ resp'.status = 401
                       /\ resp'.user = None
                       /\ resp'.access_token = NoJwt
                       /\ resp'.refresh_token = NoJwt
                       /\ users' = users
                       /\ sessions' = sessions
                 /\ (~is_locked(user, now) /\ right
                        /\ user.status = "active" /\ user.email_verified)
                    => /\ resp'.status = 200
                       /\ resp'.user = uid
                       /\ users'[uid].failed_login_count = 0
                       /\ ~is_locked(users'[uid], now)]_vars

C12_Witness ==
    /\ resp.req.op = "login"
    /\ UserByEmail(users, resp.req.email) /= None
    /\ LET user == users[UserByEmail(users, resp.req.email)]
       IN  /\ verify_password(resp.req.password, user.password_hash)
           /\ user.status = "active"
           /\ user.email_verified
           /\ user.failed_login_count = MAX_FAILED_LOGINS
           /\ is_locked(user, now)
    /\ resp.status = 401
    /\ resp.message =
           "Account is temporarily locked due to failed login attempts"

\* C13: a session that is inactive stays inactive: no request of this
\* subsystem (login, logout, refresh, verify_email, password reset) removes
\* it or sets its is_active back to true.
C13_InactiveSessionStaysInactive ==
    [][\A i \in DOMAIN sessions :
          ~sessions[i].is_active
          => (i \in DOMAIN sessions' /\ ~sessions'[i].is_active)]_vars

C13_Witness ==
    /\ resp.req.op = "login"
    /\ resp.status = 200
    /\ \E i \in DOMAIN sessions :
           /\ sessions[i].user_id = resp.user
           /\ ~sessions[i].is_active
    /\ \E i \in DOMAIN sessions :
           /\ sessions[i].user_id = resp.user
           /\ sessions[i].is_active

\* The refresh tokens the service accepts in the current state: validly
\* signed, unexpired, of type "refresh", naming an existing active user.
RefreshAccepts(tok) ==
    /\ JwtDecodes(tok, now)
    /\ tok.type = "refresh"
    /\ UserById(users, tok.sub) /= None
    /\ is_active_user(users[tok.sub])

\* The database with another session table: every row revoked, or no row.
OtherSessions(revoked) ==
    [DB EXCEPT !.sessions =
        IF revoked
        THEN [i \in DOMAIN sessions |-> soft_delete(sessions[i])]
        ELSE <<>>]

\* What refresh_access_token raises and returns on a database.
RefreshOutcome(db, tok) ==
    LET result == refresh_access_token(db, now, rnd, tok)
    IN  <<result.exc, result.access_token, result.refresh_token>>

\* C14: a refresh request leaves every session row (and every other row)
\* unchanged, its outcome is the same whatever the session table holds, and
\* an unexpired refresh token of an active user yields a new token pair also
\* when the sessions of that user have been revoked since it was issued.
C14_RefreshIgnoresSessions ==
    [][\A tok \in issued \cup {Forged, Stale} :
          PostRefresh(tok)
          => /\ sessions' = sessions
             /\ users' = users
             /\ orgs' = orgs
             /\ \A revoked \in BOOLEAN :
                    /\ RefreshOutcome(OtherSessions(revoked), tok)
                           = RefreshOutcome(DB, tok)
                    /\ RefreshOutcome(OtherSessions(revoked), tok)[1].type
                           = resp'.raised
                    /\ RefreshOutcome(OtherSessions(revoked), tok)[2]
                           = resp'.access_token
                    /\ RefreshOutcome(OtherSessions(revoked), tok)[3]
                           = resp'.refresh_token
             /\ RefreshAccepts(tok)
                => /\ resp'.status = 200
                   /\ resp'.access_token /= NoJwt
                   /\ resp'.refresh_token /= NoJwt]_vars

C14_Witness ==
    /\ resp.req.op = "refresh"
    /\ resp.status = 200
    /\ resp.refresh_token /= NoJwt
    /\ \E i \in DOMAIN sessions : sessions[i].user_id = resp.req.bearer.sub
    /\ \A i \in DOMAIN sessions :
           sessions[i].user_id = resp.req.bearer.sub => ~sessions[i].is_active

\* C15: a refresh request is answered 200 with a new access token and a new
\* refresh token for the token's user exactly when the token is validly
\* signed, unexpired, of type "refresh" and names an existing active user;
\* every other token, a valid access token included, is answered 401
\* AUTHENTICATION_ERROR and nothing is issued.
C15_RefreshOnlyValidRefreshTokens ==
    [][\A tok \in issued \cup {Forged, Stale} :
          PostRefresh(tok)
          => IF RefreshAccepts(tok)
             THEN /\ resp'.status = 200
                  /\ resp'.access_token
                         = create_access_token(tok.sub, users[tok.sub], now)
                  /\ resp'.refresh_token = create_refresh_token(tok.sub, now)
                  /\ issued' = issued \cup {resp'.access_token,
                                             resp'.refresh_token}
             ELSE /\ resp'.status = 401
                  /\ resp'.raised = "AuthenticationError"
                  /\ resp'.code = "AUTHENTICATION_ERROR"
                  /\ resp'.access_token = NoJwt
                  /\ resp'.refresh_token = NoJwt
                  /\ issued' = issued]_vars

C15_Witness ==
    /\ resp.req.op = "refresh"
    /\ JwtDecodes(resp.req.bearer, now)
    /\ resp.req.bearer.type /= "refresh"
    /\ UserById(users, resp.req.bearer.sub) /= None
    /\ is_active_user(users[resp.req.bearer.sub])
    /\ resp.status = 401
    /\ resp.message = "Invalid token type"

\* C16: the only change of a user's status that a request makes is pending
\* to active, by verify_email; the status of a suspended or deactivated user
\* is changed by no request, also when the user still holds a verification
\* token.
C16_OnlyPendingBecomesActive ==
    [][\A i \in DOMAIN users :
          /\ users'[i].status /= users[i].status
             => /\ users[i].status = "pending"
                /\ users'[i].status = "active"
                /\ resp'.req.op = "verify_email"
          /\ users[i].status \in {"suspended", "deactivated"}
             => users'[i].status = users[i].status]_vars

\* C17: a request that ends with an error response persists none of the
\* writes made while it was handled: the users, sessions and organizations
\* are as before the request (a register request answered with an error
\* leaves no new user and no new organization).
C17_ErrorPersistsNothing ==
    [][resp'.status >= 400
       => (users' = users /\ sessions' = sessions /\ orgs' = orgs)]_vars

\* C18: an email is held by at most one user at any time, and a register
\* request that reaches its INSERT after another request has taken the same
\* email is answered 409 CONFLICT_ERROR and adds no user.
C18_ConcurrentRegisterConflict ==
    /\ [](\A e \in Emails :
             Cardinality({i \in DOMAIN users : users[i].email = e}) <= 1)
    /\ [][\A w \in Workers :
              (/\ RegisterInsert(w)
               /\ UserByEmail(users, flight[w].req.email) /= None)
              => /\ resp'.status = 409
                 /\ resp'.code = "CONFLICT_ERROR"
                 /\ users' = users]_vars

\* C19: a single-use token is consumed once: a verify_email request that
\* succeeds carries a token that no earlier request has consumed, and a
\* reset_password request that succeeds takes the token from the user that
\* held it.
C19_TokenConsumedOnce ==
    [][/\ \A w \in Workers :
              (VerifyWrite(w) /\ resp'.status = 200)
              => flight[w].req.token \notin consumed
       /\ \A tok \in Tokens, p \in ResetPasswords :
              (PostPasswordResetConfirm(tok, p) /\ resp'.status = 200)
              => /\ UserByResetToken(users, tok) /= None
                 /\ UserByResetToken(users', tok) = None]_vars

\* C20: for every configured access-token lifetime of m minutes, a response
\* that carries tokens has token_type "bearer" and expires_in = 60 * m
\* seconds, the time from the response to the expiry of its access token.
C20_ExpiresInMatchesLifetime ==
    resp.access_token /= NoJwt =>
        /\ resp.token_type = "bearer"
        /\ resp.expires_in
               = SECONDS_PER_MINUTE * settings.JWT_ACCESS_TOKEN_EXPIRE_MINUTES
        /\ resp.expires_in
               = SECONDS_PER_MINUTE * (resp.access_token.exp - now)

\* An exception that is neither a typed service error nor a rejection of the
\* request body.
Unexpected(exc) ==
    exc /= NoExc /\ exc.type \notin FlowAITypes \cup {"RequestValidationError"}

GenericError(response) ==
    /\ response.status = 500
    /\ response.code = "INTERNAL_ERROR"
    /\ response.message = "An unexpected error occurred"

\* C21: a typed service error reaches the client with the fixed status and
\* code of its type (AuthenticationError 401, ValidationError 422,
\* NotFoundError 404, ConflictError 409), and an unexpected exception raised
\* while an endpoint is handled is answered 500 INTERNAL_ERROR with the
\* generic message, which holds no text of the exception.
C21_ErrorMapping ==
    [][/\ resp'.raised = "AuthenticationError"
          => (resp'.status = 401 /\ resp'.code = "AUTHENTICATION_ERROR")
       /\ resp'.raised = "ValidationError"
          => (resp'.status = 422 /\ resp'.code = "VALIDATION_ERROR")
       /\ resp'.raised = "NotFoundError"
          => (resp'.status = 404 /\ resp'.code = "NOT_FOUND")
       /\ resp'.raised = "ConflictError"
          => (resp'.status = 409 /\ resp'.code = "CONFLICT_ERROR")
       /\ \A tok \in Tokens, p \in ResetPasswords :
              (/\ PostPasswordResetConfirm(tok, p)
               /\ ~SchemaRejects(p)
               /\ Unexpected(reset_password(DB, now, rnd, tok, p).exc))
              => (GenericError(resp')
                  /\ resp'.message
                         /= reset_password(DB, now, rnd, tok, p).exc.message)
       /\ \A tok \in issued \cup {Forged, Stale} :
              (/\ PostLogout(tok)
               /\ verify_token(tok, now) = NoExc
               /\ Unexpected(logout_user(DB, now, rnd, tok.sub, None).exc))
              => GenericError(resp')]_vars

\* ---------------------------------------------------------------------
\* Registration into organizations.  The organization table is shared with
\* the rest of the platform, which owns the life cycle of organizations: at
\* start it is empty or holds an organization that has no user yet.  Both
\* e-mail addresses may register and verify.
OrganizationTables == {<<>>, <<NewOrganization("Acme")>>}

OrganizationsInit ==
    /\ users = <<>>
    /\ sessions = <<>>
    /\ orgs \in OrganizationTables
    /\ now = 0
    /\ rnd = 0
    /\ issued = {}
    /\ resp = Success(NoRequest, 0, "", None, NoJwt, NoJwt)
    /\ ticks = 0
    /\ consumed = {}
    /\ scenario = Off
    /\ settings = Settings(JWT_ACCESS_TOKEN_EXPIRE_MINUTES)
    /\ flight = [w \in Workers |-> Idle]

OrganizationsNext ==
    \/ \E e \in Emails, p \in RegisterPasswords, o \in OrgNames :
           PostRegister(e, p, o)
    \/ \E tok \in Tokens : PostVerifyEmail(tok)

SpecOrganizations == OrganizationsInit /\ [][OrganizationsNext]_vars

\* The row of the user that a register step has added.
Added(us) == us[Len(us)]

\* C22 as stated: a registration with an organization_name that no
\* organization has creates the organization and makes the user its admin; a
\* registration with the name of an existing organization joins it with role
\* user, whatever its user count; a registration without organization_name
\* gives role user and no organization.
C22_RoleByOrganizationExistence ==
    [][\A e \in Emails, p \in RegisterPasswords, o \in OrgNames :
          (PostRegister(e, p, o) /\ Len(users') = Len(users) + 1)
          => IF o = ""
             THEN /\ Added(users').role = "user"
                  /\ Added(users').organization_id = None
                  /\ orgs' = orgs
             ELSE IF OrgByName(orgs, o) = None
             THEN /\ Len(orgs') = Len(orgs) + 1
                  /\ orgs'[Len(orgs')].name = o
                  /\ Added(users').organization_id = Len(orgs')
                  /\ Added(users').role = "admin"
             ELSE /\ Len(orgs') = Len(orgs)
                  /\ Added(users').organization_id = OrgByName(orgs, o)
                  /\ Added(users').role = "user"]_vars

\* C22 (amended): as above, but a user who joins an existing organization
\* gets role user only when that organization already counts a user; the
\* first user of an existing organization that counts none becomes its admin.
C22_RoleByOrganizationUserCount ==
    [][\A e \in Emails, p \in RegisterPasswords, o \in OrgNames :
          (PostRegister(e, p, o) /\ Len(users') = Len(users) + 1)
          => IF o = ""
             THEN /\ Added(users').role = "user"
                  /\ Added(users').organization_id = None
                  /\ orgs' = orgs
             ELSE IF OrgByName(orgs, o) = None
             THEN /\ Len(orgs') = Len(orgs) + 1
                  /\ orgs'[Len(orgs')].name = o
                  /\ Added(users').organization_id = Len(orgs')
                  /\ Added(users').role = "admin"
             ELSE /\ Len(orgs') = Len(orgs)
                  /\ Added(users').organization_id = OrgByName(orgs, o)
                  /\ Added(users').role
                        = IF orgs[OrgByName(orgs, o)].user_count = 0
                          THEN "admin" ELSE "user"]_vars

\* Two users registered with the same organization name: the first is its
\* admin, the second joined the organization, which then counted a user,
\* with role user.
C22_Witness ==
    /\ Len(users) = 2
    /\ Len(orgs) = 1
    /\ orgs[1].user_count = 2
    /\ users[1].organization_id = 1 /\ users[1].role = "admin"
    /\ users[2].organization_id = 1 /\ users[2].role = "user"
    /\ resp.req.op = "register"

\* The values of User.status.
UserStatus == {"pending", "active", "suspended", "deactivated"}

\* The user directories that authenticate_user is examined on in a state:
\* the stored one, and the stored one with the row of one user in any status,
\* verified or not, locked or not.
Accounts ==
    {DB} \cup
    {[DB EXCEPT !.users[i] = [@ EXCEPT !.status = st,
                                       !.email_verified = v,
                                       !.locked_until = l]] :
        i \in DOMAIN users, st \in UserStatus, v \in BOOLEAN,
        l \in {NoTime, now + LOCK_MINUTES}}

LockedFailure ==
    AuthenticationError(
        "Account is temporarily locked due to failed login attempts")

\* C23: authenticate evaluates its checks in the order user exists, not
\* locked, password verifies, status active, e-mail verified, and the first
\* failing check alone determines the outcome: a locked account is rejected
\* with failed_login_count unchanged whatever the password, and a wrong
\* password on an account that is not locked gives the generic error and
\* counts a failure whatever the status and the verification of the account.
C23_ChecksInFixedOrder ==
    \A db \in Accounts, e \in Emails, p \in LoginPasswords :
        LET uid == UserByEmail(db.users, e)
            result == authenticate_user(db, now, rnd, e, p)
        IN  IF uid = None
            THEN /\ result.exc = AuthenticationError("Invalid email or password")
                 /\ get_db(result) = db
            ELSE IF is_locked(db.users[uid], now)
            THEN /\ result.exc = LockedFailure
                 /\ get_db(result) = db
            ELSE IF ~verify_password(p, db.users[uid].password_hash)
            THEN /\ result.exc = AuthenticationError("Invalid email or password")
                 /\ get_db(result).users[uid].failed_login_count
                        = db.users[uid].failed_login_count + 1
            ELSE IF db.users[uid].status /= "active"
            THEN /\ result.exc = AuthenticationError("Account is not active")
                 /\ get_db(result) = db
            ELSE IF ~db.users[uid].email_verified
            THEN /\ result.exc = AuthenticationError("Email address not verified")
                 /\ get_db(result) = db
            ELSE result.exc = NoExc

\* A login with a wrong password on an account that is not active has been
\* answered with the generic message and has counted a failure.
C23_Witness ==
    /\ resp.req.op = "login"
    /\ resp.status = 401
    /\ resp.message = "Invalid email or password"
    /\ \E i \in DOMAIN users :
           /\ users[i].email = resp.req.email
           /\ users[i].status /= "active"
           /\ ~verify_password(resp.req.password, users[i].password_hash)
           /\ users[i].failed_login_count = 1

\* C24: when a login fails because the password does not verify, the
\* user's failed_login_count is one higher after the request than before it;
\* the increment is committed before the error is raised, so the rollback
\* of the request-level session handler does not undo it.
C24_FailedLoginCountPersisted ==
    [][\A e \in Emails, p \in LoginPasswords :
          (/\ PostLogin(e, p)
           /\ UserByEmail(users, e) /= None
           /\ ~is_locked(users[UserByEmail(users, e)], now)
           /\ ~verify_password(p, users[UserByEmail(users, e)].password_hash))
          => (/\ resp'.status = 401
              /\ users'[UserByEmail(users, e)].failed_login_count
                     = users[UserByEmail(users, e)].failed_login_count + 1)]_vars

\* A login with a wrong password has been answered with an error and the
\* stored count of the user is 1.
C24_Witness ==
    /\ resp.req.op = "login"
    /\ resp.status = 401
    /\ \E i \in DOMAIN users :
           /\ users[i].email = resp.req.email
           /\ ~verify_password(resp.req.password, users[i].password_hash)
           /\ users[i].failed_login_count = 1
           /\ users[i].locked_until = NoTime

\* The rows of the active sessions of a user.
LiveSessions(rows, uid) ==
    {i \in DOMAIN rows : rows[i].user_id = uid /\ rows[i].is_active}

\* C25: a successful login adds exactly one new active session row for the
\* user, with expires_at = login time + refresh-token lifetime, and leaves
\* the rows that exist untouched, live sessions of the same user included;
\* a failed login adds no session row and issues no token.
C25_LoginAddsOneSession ==
    \A e \in Emails, p \in LoginPasswords :
        LET result == authenticate_user(DB, now, rnd, e, p)
            after == get_db(result).sessions
        IN  IF result.exc = NoExc
            THEN /\ Len(after) = Len(sessions) + 1
                 /\ SubSeq(after, 1, Len(sessions)) = sessions
                 /\ after[Len(after)].user_id = UserByEmail(users, e)
                 /\ after[Len(after)].is_active
                 /\ after[Len(after)].expires_at
                        = now + settings.JWT_REFRESH_TOKEN_EXPIRE_DAYS
                                    * MINUTES_PER_DAY
                 /\ \A i \in DOMAIN sessions :
                        sessions[i].session_token
                            /= after[Len(after)].session_token
                 /\ Cardinality(LiveSessions(after, result.user))
                        = Cardinality(LiveSessions(sessions, result.user)) + 1
                 /\ result.access_token /= NoJwt
                 /\ result.refresh_token /= NoJwt
            ELSE /\ after = sessions
                 /\ result.access_token = NoJwt
                 /\ result.refresh_token = NoJwt

\* A login has succeeded next to a stored session of the user, which is
\* untouched; the user holds a live session, and one more login gives the
\* user a second live session.
C25_Witness ==
    /\ resp.req.op = "login"
    /\ resp.status = 200
    /\ Len(sessions) = 2
    /\ sessions[1] = Revoked.sessions[1]
    /\ sessions[2].user_id = resp.user
    /\ sessions[2].is_active
    /\ sessions[2].expires_at = now + JWT_REFRESH_TOKEN_EXPIRE_DAYS * MINUTES_PER_DAY
    /\ Cardinality(LiveSessions(
           get_db(authenticate_user(DB, now, rnd, resp.req.email,
                                    resp.req.password)).sessions,
           resp.user)) = 2

\* C26: when reset_password fails for an unknown token, an expired token or
\* a new password that violates the strength policy, the store is unchanged:
\* password hash, password_reset_token, password_reset_expires and
\* password_changed_at keep their values and no session is revoked; an
\* expired token is not cleared.
C26_FailedResetChangesNothing ==
    \A tok \in Tokens, p \in ResetPasswords :
        LET uid == UserByResetToken(users, tok)
            result == reset_password(DB, now, rnd, tok, p)
        IN  /\ uid = None
               => (/\ result.exc = NotFoundError("Invalid reset token")
                   /\ get_db(result) = DB)
            /\ (uid /= None /\ users[uid].password_reset_expires < now)
               => (/\ result.exc = ValidationError("Reset token has expired")
                   /\ get_db(result) = DB
                   /\ get_db(result).users[uid].password_reset_token = tok)
            /\ (/\ uid /= None
                /\ users[uid].password_reset_expires >= now
                /\ ~PolicyCompliant(p))
               => (/\ result.exc.type = "ValidationError"
                   /\ get_db(result) = DB)

\* A reset with an unexpired token and a new password that the schema lets
\* through and the policy rejects has been answered 422; the user still holds
\* the token and the password was never changed.
C26_Witness ==
    /\ resp.req.op = "password_reset_confirm"
    /\ resp.status = 422
    /\ ~SchemaRejects(resp.req.password)
    /\ ~PolicyCompliant(resp.req.password)
    /\ \E i \in DOMAIN users :
           /\ users[i].password_reset_token = resp.req.token
           /\ users[i].password_reset_expires >= now
           /\ users[i].password_changed_at = NoTime
           /\ verify_password(PwGood, users[i].password_hash)

\* C27: in every reachable state and for every user, password_reset_token
\* is null exactly when password_reset_expires is null, so a user whom
\* reset_password finds by a token has an expiry to compare with the clock.
C27_ResetTokenAndExpiryTogether ==
    /\ \A i \in DOMAIN users :
           (users[i].password_reset_token = None)
               <=> (users[i].password_reset_expires = NoTime)
    /\ \A tok \in Tokens :
           UserByResetToken(users, tok) /= None
           => users[UserByResetToken(users, tok)].password_reset_expires
                  /= NoTime

\* A reset has been requested and confirmed with the token: the user holds
\* a token together with its expiry, and reset_password has compared that
\* expiry with the clock.
C27_Witness ==
    /\ resp.req.op = "password_reset_confirm"
    /\ resp.status /= 404
    /\ ~SchemaRejects(resp.req.password)
    /\ \E i \in DOMAIN users :
           /\ users[i].password_reset_token = resp.req.token
           /\ users[i].password_reset_expires = RESET_TOKEN_HOURS * MINUTES_PER_HOUR

\* ---------------------------------------------------------------------
\* The user directory under administration.  Besides the requests of the
\* users, the administration changes the status of accounts along the
\* documented state machine: active -> suspended, suspended -> active, and
\* any status -> deactivated.
reactivate(user) == [user EXCEPT !.status = "active"]

Administered(op, uid, row) ==
    /\ users' = [users EXCEPT ![uid] = row]
    /\ resp' = Success(Request(op, users[uid].email, <<>>, None, "", NoJwt),
                       0, "", None, NoJwt, NoJwt)
    /\ UNCHANGED <<sessions, orgs, now, rnd, issued, ticks, consumed,
                   scenario, settings, flight>>

Suspend(uid) ==
    /\ uid \in DOMAIN users
    /\ users[uid].status = "active"
    /\ Administered("suspend", uid, suspend(users[uid]))

Reactivate(uid) ==
    /\ uid \in DOMAIN users
    /\ users[uid].status = "suspended"
    /\ Administered("reactivate", uid, reactivate(users[uid]))

Deactivate(uid) ==
    /\ uid \in DOMAIN users
    /\ users[uid].status /= "deactivated"
    /\ Administered("deactivate", uid, deactivate(users[uid]))

AdministeredNext ==
    \/ \E e \in RegisterEmails, p \in RegisterPasswords, o \in OrgNames :
           PostRegister(e, p, o)
    \/ \E e \in Emails, p \in LoginPasswords : PostLogin(e, p)
    \/ \E tok \in Tokens : PostVerifyEmail(tok)
    \/ \E u \in UserIds : Suspend(u)
    \/ \E u \in UserIds : Reactivate(u)
    \/ \E u \in UserIds : Deactivate(u)

SpecAdministered == Init /\ [][AdministeredNext]_vars

\* C28: in every reachable state a user with email_verified = true has
\* verification_token = null and, the administration following the
\* documented state machine, a user with status active has
\* email_verified = true; so no login is rejected with "Email address not
\* verified".
C28_ActiveImpliesVerified ==
    /\ \A i \in DOMAIN users :
           /\ users[i].email_verified => users[i].verification_token = None
           /\ users[i].status = "active" => users[i].email_verified
    /\ \A e \in Emails, p \in LoginPasswords :
           authenticate_user(DB, now, rnd, e, p).exc
               /= AuthenticationError("Email address not verified")
    /\ resp.message /= "Email address not verified"

\* A verified account was suspended and has been made active again: it is
\* active, verified and without verification token.
C28_Witness ==
    /\ resp.req.op = "reactivate"
    /\ \E i \in DOMAIN users :
           /\ users[i].email = resp.req.email
           /\ users[i].status = "active"
           /\ users[i].email_verified
           /\ users[i].verification_token = None
           /\ authenticate_user(DB, now, rnd, users[i].email, PwGood).exc = NoExc

\* ---------------------------------------------------------------------
\* Password resets of a user who already holds a reset token.  The token was
\* requested before the start, at time 0; it differs from every token that
\* is drawn afterwards.
Requested ==
    get_db(request_password_reset(Verified, 0, MaxResetTokens, "a@x.com"))

EarlierToken == Requested.users[1].password_reset_token

ResetTokens == 1..EarlierToken

ResetInit ==
    /\ users = Requested.users
    /\ sessions = Requested.sessions
    /\ orgs = Requested.orgs
    /\ now = 0
    /\ rnd = 0
    /\ issued = {}
    /\ resp = Success(NoRequest, 0, "", None, NoJwt, NoJwt)
    /\ ticks = 0
    /\ consumed = {Registered.users[1].verification_token}
    /\ scenario = Off
    /\ settings = Settings(JWT_ACCESS_TOKEN_EXPIRE_MINUTES)
    /\ flight = [w \in Workers |-> Idle]

ResetNext ==
    \/ \E e \in Emails : PostPasswordResetRequest(e)
    \/ \E tok \in ResetTokens, p \in ResetPasswords :
           PostPasswordResetConfirm(tok, p)
    \/ \E e \in Emails, p \in LoginPasswords : PostLogin(e, p)
    \/ \E m \in TickMinutes : Tick(m)

SpecReset == ResetInit /\ [][ResetNext]_vars

\* C29: a user holds at most one valid password-reset token at a time: a
\* successful request_password_reset replaces the user's previous token and
\* expiry, and from then on reset_password with the earlier token fails with
\* NotFound, also while the hour of the earlier token has not elapsed.
C29_RequestReplacesResetToken ==
    [][\A e \in Emails :
          (PostPasswordResetRequest(e) /\ resp'.status = 200)
          => LET uid == UserByEmail(users, e)
                 earlier == users[uid].password_reset_token
             IN  /\ users'[uid].password_reset_token \notin {None, earlier}
                 /\ users'[uid].password_reset_expires
                        = now + RESET_TOKEN_HOURS * MINUTES_PER_HOUR
                 /\ Cardinality({tok \in ResetTokens :
                        UserByResetToken(users', tok) = uid}) = 1
                 /\ earlier /= None
                    => \A p \in ResetPasswords :
                           reset_password(
                               [users |-> users', sessions |-> sessions',
                                orgs |-> orgs'],
                               now', rnd', earlier, p).exc
                             = NotFoundError("Invalid reset token")]_vars

\* A reset with the earlier token has been answered 404 within the hour of
\* that token: the user holds the token of a later request.
C29_Witness ==
    /\ resp.req.op = "password_reset_confirm"
    /\ resp.req.token = EarlierToken
    /\ resp.status = 404
    /\ now < Requested.users[1].password_reset_expires
    /\ users[1].password_reset_token \notin {None, EarlierToken}

\* C30: authenticate issues tokens and creates a session only for a user
\* who, at the moment of the call, exists, is not locked, supplied the
\* correct password, has status active and has a verified e-mail address;
\* no other path through authenticate returns tokens.
C30_TokensOnlyForEligibleUser ==
    \A db \in Accounts, e \in Emails, p \in LoginPasswords :
        LET uid == UserByEmail(db.users, e)
            result == authenticate_user(db, now, rnd, e, p)
        IN  (\/ result.exc = NoExc
             \/ result.access_token /= NoJwt
             \/ result.refresh_token /= NoJwt
             \/ get_db(result).sessions /= db.sessions)
            => (/\ uid /= None
                /\ ~is_locked(db.users[uid], now)
                /\ verify_password(p, db.users[uid].password_hash)
                /\ db.users[uid].status = "active"
                /\ db.users[uid].email_verified
                /\ result.user = uid
                /\ result.access_token.sub = uid
                /\ result.refresh_token.sub = uid)

\* A login has returned tokens: their subject exists, is not locked, is
\* active and verified, the password of the request is the subject's, and
\* the subject has a session.
C30_Witness ==
    /\ resp.req.op = "login"
    /\ resp.access_token /= NoJwt
    /\ resp.refresh_token /= NoJwt
    /\ resp.access_token.sub \in DOMAIN users
    /\ LET user == users[resp.access_token.sub]
       IN  /\ user.email = resp.req.email
           /\ ~is_locked(user, now)
           /\ verify_password(resp.req.password, user.password_hash)
           /\ user.status = "active"
           /\ user.email_verified
    /\ LiveSessions(sessions, resp.access_token.sub) /= {}

====
